---- MODULE Spec2Model ----
(***************************************************************************)
(* State-machine model of the memory package (src/memory): VectorIndex,    *)
(* LongTermMemory, EpisodicMemory, ShortTermMemory and MemoryManager.      *)
(*                                                                         *)
(* Numbers.  Python floats are modelled in fixed point: 1.0 is Scale, so   *)
(* an importance of 0.05 is 5 and a relevance of 0.5 is 50.  Wherever the  *)
(* code compares two computed floats (retention scores, blended            *)
(* relevances) the model compares the exact rationals by cross             *)
(* multiplication, so no comparison depends on rounding.                   *)
(*                                                                         *)
(* Time.  time.time() is the variable clock, counted in periods of         *)
(* DaysPerPeriod days (the code divides every age by 30 days).             *)
(*                                                                         *)
(* Embeddings.  The embedding model is an external function of the text;   *)
(* a stored vector is represented by the text it was computed from, and    *)
(* the geometry by the table Similarity (cosine of query and text).        *)
(***************************************************************************)
EXTENDS Integers, Sequences, FiniteSets, TLC

VARIABLES
    clock,          \* time.time(), in periods of DaysPerPeriod days
    config,         \* MemoryManager.model_name / index_type / use_cosine
    indexes,        \* VectorIndex.indexes: category -> stored vectors, in order
    texts,          \* VectorIndex.texts: category -> list of texts
    lt_memory,      \* LongTermMemory.memory: category -> list of texts
    aliased,        \* long-term categories whose texts[c] IS the list object lt_memory[c]
    memories,       \* EpisodicMemory.memories
    messages,       \* ShortTermMemory.messages
    memory_texts,   \* MemoryManager.memory_texts
    disk,           \* the file written by save_to_file
    next_uid,       \* number of episodic entries created so far (object identities)
    steps,          \* number of calls made and clock ticks passed so far
    issued,         \* history: <<returned id, identity of the entry added>> per add_memory call
    saved,          \* history: the manager's state when save_to_file last ran
    ret             \* the last call: its name, arguments and returned value

vars == <<clock, config, indexes, texts, lt_memory, aliased, memories, messages,
          memory_texts, disk, next_uid, issued, steps, saved, ret>>

---------------------------------------------------------------------------
\* Bounds of the model.

\* settings['max_memories'] of the modelled store (the program's default is 100)
MaxMemories == 2
\* ShortTermMemory.max_messages of the modelled buffer (the program's default is 10)
MaxMessages == 2
\* length of the runs explored: calls made plus clock ticks
MaxSteps == 4

---------------------------------------------------------------------------
\* Program constants and fixed-point units.

\* 1.0 in fixed point
Scale == 100
\* a raw distance / inner product of 1.0
DistUnit == 2
\* age_in_days / 30
DaysPerPeriod == 30
\* importance_decay_rate 0.95, as a fraction of DecayDen
DecayNum == 95
DecayDen == 100
\* 1.0 as a decay factor
FactorScale == 1000000
\* max(0.1, ...) in decay_memories
DecayFloor == 10
\* score = 0.7 * importance + 0.2 * recency + 0.1 * min(1, access_frequency), in tenths
PruneImportanceW == 7
PruneRecencyW == 2
PruneAccessW == 1
\* semantic_weight 0.6, importance_weight 0.7, recency_weight 0.3, in tenths
SemanticW == 6
ImportanceW == 7
RecencyW == 3
\* num_vectors < 1000: the corpus size below which create_index builds a flat index
FlatBelow == 1000
\* default min_relevance = 0.2 of VectorIndex.search and of retrieve_relevant
DefaultMinRelevance == 20
\* default top_k = 3 of retrieve_relevant
DefaultTopK == 3
\* default importance = 0.5 of add_memory
DefaultImportance == 50
\* stand-in for FLT_MAX, the distance FAISS reports for a missing neighbour
Huge == 1000000
\* stand-in for a float infinity
Inf == 1000000

None == "None"

LTCategories == {"facts", "traits", "speech_patterns"}
Categories == LTCategories \cup {"episodic"}
Texts == {"a", "b"}
Queries == {"a", "q"}
Methods == {"sigmoid", "inverse", "exponential"}

\* one more call (or clock tick) of the run
Called == steps < MaxSteps /\ steps' = steps + 1

Min(x, y) == IF x <= y THEN x ELSE y
Max(x, y) == IF x >= y THEN x ELSE y

\* dict assignment d[k] = v and deletion del d[k]
Put(d, k, v) == [x \in DOMAIN d \cup {k} |-> IF x = k THEN v ELSE d[x]]
Del(d, k) == [x \in DOMAIN d \ {k} |-> d[x]]

---------------------------------------------------------------------------
\* VectorIndex

\* cosine of the embeddings of two texts, in units of 1/DistUnit
Similarity(q, t) ==
    IF q = t THEN 2
    ELSE IF {q, t} = {"a", "b"} THEN -1
    ELSE IF {q, t} = {"q", "a"} THEN 1
    ELSE 0

\* the value FAISS reports for a stored vector: the inner product of the unit
\* vectors (IndexFlatIP) or the squared Euclidean distance (IndexFlatL2)
RawDistance(use_cosine, q, t) ==
    IF use_cosine THEN Similarity(q, t) ELSE 2 * DistUnit - 2 * Similarity(q, t)

\* the value FAISS reports in a slot it could not fill (label -1)
PadDistance(use_cosine) == IF use_cosine THEN -Huge ELSE Huge

\* exp(-d) for the distances of the model, in fixed point
ExpNeg(d) ==
    CASE d = -Huge -> Inf
      [] d = -1 -> 165
      [] d = 0 -> 100
      [] d = 1 -> 61
      [] d = 2 -> 37
      [] d = 4 -> 14
      [] d = 6 -> 5
      [] OTHER -> 0

\* 1 / (1 + exp(5 * (d - 1))) for the distances of the model, in fixed point
Sigmoid(d) ==
    CASE d = -Huge -> 100
      [] d = -1 -> 100
      [] d = 0 -> 99
      [] d = 1 -> 92
      [] d = 2 -> 50
      [] d = 4 -> 1
      [] d = 6 -> 1
      [] OTHER -> 0

\* 1 / (1 + d); a zero denominator gives a float infinity
Inverse(d) ==
    IF d = -Huge THEN -1
    ELSE IF d = Huge THEN 1
    ELSE IF DistUnit + d = 0 THEN Inf
    ELSE (Scale * DistUnit) \div (DistUnit + d)

_calculate_relevance(distance, method) ==
    CASE method = "inverse" -> Inverse(distance)
      [] method = "exponential" -> ExpNeg(distance)
      [] method = "sigmoid" -> Sigmoid(distance)
      [] OTHER -> Inverse(distance)

\* the FAISS structure create_index builds for a corpus of num_vectors texts
IndexKind(index_type, num_vectors) ==
    IF index_type = "flat" \/ num_vectors < FlatBelow THEN "flat"
    ELSE IF index_type = "ivf" /\ num_vectors >= FlatBelow THEN "ivf"
    ELSE IF index_type = "hnsw" /\ num_vectors >= FlatBelow THEN "hnsw"
    ELSE "flat"

\* create_index: nothing happens for an empty list; otherwise one vector per
\* text is stored and the caller's list becomes texts[memory_type]
create_index(ix, tx, memory_type, ts) ==
    IF ts = <<>> THEN [indexes |-> ix, texts |-> tx]
    ELSE [indexes |-> Put(ix, memory_type, ts), texts |-> Put(tx, memory_type, ts)]

update_index(ix, tx, memory_type, new_texts) ==
    IF new_texts = <<>> THEN [indexes |-> ix, texts |-> tx]
    ELSE IF memory_type \notin DOMAIN ix THEN create_index(ix, tx, memory_type, new_texts)
    ELSE [indexes |-> Put(ix, memory_type, ix[memory_type] \o new_texts),
          texts |-> IF memory_type \in DOMAIN tx
                    THEN Put(tx, memory_type, tx[memory_type] \o new_texts)
                    ELSE Put(tx, memory_type, new_texts)]

rebuild_index(ix, tx, memory_type, ts) ==
    create_index(Del(ix, memory_type), tx, memory_type, ts)

\* i is at least as near to the query as j (both positions of stored vectors)
NoFarther(vecs, q, i, j) == Similarity(q, vecs[i]) >= Similarity(q, vecs[j])

\* The label rows FAISS may return for k neighbours over the stored vectors:
\* the nearest first, ties in any order, and -1 in the slots past the last vector.
\* Labels are 0-based.
NearestLabels(vecs, q, k) ==
    LET n == Len(vecs)
        m == Min(k, n)
    IN  { s \in [1..k -> (0..(n - 1)) \cup {-1}] :
            /\ \A i \in 1..k : (s[i] = -1) <=> (i > m)
            /\ \A i, j \in 1..m : i < j => s[i] # s[j] /\ NoFarther(vecs, q, s[i] + 1, s[j] + 1)
            /\ \A i \in 1..m : \A p \in 1..n :
                   (\A j \in 1..m : s[j] # p - 1) => NoFarther(vecs, q, s[i] + 1, p) }

\* the result entry search builds for label idx, or <<>> when it is skipped
SearchHit(use_cosine, tl, vecs, q, idx, method, min_relevance) ==
    IF ~(idx < Len(tl)) THEN <<>>
    ELSE LET pos == IF idx >= 0 THEN idx + 1 ELSE Len(tl) + idx + 1
             distance == IF idx >= 0 THEN RawDistance(use_cosine, q, vecs[idx + 1])
                         ELSE PadDistance(use_cosine)
             relevance == _calculate_relevance(distance, method)
         IN  IF relevance >= min_relevance
             THEN << [text |-> tl[pos], index |-> idx, distance |-> distance,
                      relevance |-> relevance] >>
             ELSE <<>>

RECURSIVE SearchHits(_, _, _, _, _, _, _)
SearchHits(use_cosine, tl, vecs, q, labels, method, min_relevance) ==
    IF labels = <<>> THEN <<>>
    ELSE SearchHit(use_cosine, tl, vecs, q, Head(labels), method, min_relevance)
         \o SearchHits(use_cosine, tl, vecs, q, Tail(labels), method, min_relevance)

\* search answering from the text list of a category whose index is gone
search_stale(use_cosine, ix, tx, memory_type, q, top_k, method, min_relevance) ==
    IF memory_type \notin DOMAIN tx THEN { <<>> }
    ELSE LET vecs == IF memory_type \in DOMAIN ix THEN ix[memory_type]
                     ELSE tx[memory_type]
             k == Min(top_k, Len(tx[memory_type]))
         IN  { SearchHits(use_cosine, tx[memory_type], vecs, q, labels, method,
                          min_relevance) :
                 labels \in NearestLabels(vecs, q, k) }

\* search: the set of result lists the call may return
search(use_cosine, ix, tx, memory_type, q, top_k, method, min_relevance) ==
    IF memory_type \notin DOMAIN ix \/ memory_type \notin DOMAIN tx THEN { <<>> }
    ELSE LET k == Min(top_k, Len(tx[memory_type]))
         IN  { SearchHits(use_cosine, tx[memory_type], ix[memory_type], q, labels,
                          method, min_relevance) :
                 labels \in NearestLabels(ix[memory_type], q, k) }

---------------------------------------------------------------------------
\* EpisodicMemory

ImportanceArgs == {5, 50, 150}
MetaArgs == { <<None, None>>, <<"private", "joy">> }
TopKArgs == {1, 2}
MinRelevanceArgs == {20, 60}

Age(memory, current_time) == current_time - memory.unix_time

\* the retention score of _prune_memories as the fraction ScoreNum / ScoreDen
\* (times 10 * Scale, which is common to all entries)
ScoreDen(memory, current_time) ==
    LET age == Age(memory, current_time)
    IN  (1 + age) * (1 + DaysPerPeriod * age)

ScoreNum(memory, current_time) ==
    LET age == Age(memory, current_time)
    IN  PruneImportanceW * memory.importance * ScoreDen(memory, current_time)
        + PruneRecencyW * Scale * (1 + DaysPerPeriod * age)
        + PruneAccessW * Scale * Min(ScoreDen(memory, current_time),
                                     memory.access_count * (1 + age))

ScoreLE(a, b, current_time) ==
    ScoreNum(a, current_time) * ScoreDen(b, current_time)
        <= ScoreNum(b, current_time) * ScoreDen(a, current_time)

\* memories_with_scores.sort(key=score): the positions 1..n in ascending score
\* order, equal scores in their original order (the sort is stable)
\* SortByScore leaving the entries in the order of the list
SortByPosition(mems, current_time, n) == [i \in 1..n |-> i]

RECURSIVE SortByScore(_, _, _)
SortByScore(mems, current_time, n) ==
    IF n = 0 THEN <<>>
    ELSE LET s == SortByScore(mems, current_time, n - 1)
             p == Cardinality({i \in 1..Len(s) : ScoreLE(mems[s[i]], mems[n], current_time)})
         IN  SubSeq(s, 1, p) \o <<n>> \o SubSeq(s, p + 1, Len(s))

RECURSIVE Keep(_, _, _)
Keep(mems, drop, i) ==
    IF i > Len(mems) THEN <<>>
    ELSE (IF i \in drop THEN <<>> ELSE <<mems[i]>>) \o Keep(mems, drop, i + 1)

\* PruneCount with the slice one entry short
PruneCountShort(mems) == Len(mems) - MaxMemories - 1

\* PruneCount with the slice one entry long
PruneCountLong(mems) == Len(mems) - MaxMemories + 1

\* how many entries _prune_memories removes
PruneCount(mems) == Len(mems) - MaxMemories

RemoveLowest(mems, current_time) ==
    LET sorted == SortByScore(mems, current_time, Len(mems))
        to_remove == { sorted[i] : i \in 1..Min(PruneCount(mems), Len(mems)) }
    IN  Keep(mems, to_remove, 1)

TextsOf(mems) == [i \in 1..Len(mems) |-> mems[i].text]

\* _prune_memories leaving the index as it was
_prune_memories_unindexed(mems, ix, tx, current_time) ==
    IF Len(mems) <= MaxMemories THEN [memories |-> mems, indexes |-> ix, texts |-> tx]
    ELSE [memories |-> RemoveLowest(mems, current_time), indexes |-> ix, texts |-> tx]

\* _prune_memories on the store and the index, as the state after the call
_prune_memories(mems, ix, tx, current_time) ==
    IF Len(mems) <= MaxMemories THEN [memories |-> mems, indexes |-> ix, texts |-> tx]
    ELSE LET new_memories == RemoveLowest(mems, current_time)
             vi == rebuild_index(ix, tx, "episodic", TextsOf(new_memories))
         IN  [memories |-> new_memories, indexes |-> vi.indexes, texts |-> vi.texts]

\* the stored importance made of the argument
StoredImportance(importance) == importance

\* NewEntry handing out the identity of the first entry again
NewEntryRecycled(text, importance, category, emotion, uid, current_time) ==
    [text |-> text, timestamp |-> current_time, unix_time |-> current_time,
     importance |-> importance, category |-> category,
     emotion |-> emotion, access_count |-> 0, uid |-> 1]

\* the dict add_memory appends: a new object, here with the identity uid
NewEntry(text, importance, category, emotion, uid, current_time) ==
    [text |-> text, timestamp |-> current_time, unix_time |-> current_time,
     importance |-> StoredImportance(importance), category |-> category,
     emotion |-> emotion, access_count |-> 0, uid |-> uid]

\* add_memory on the store and the index
AddMemoryEffect(text, importance, category, emotion) ==
    LET entry == NewEntry(text, importance, category, emotion, next_uid + 1, clock)
        appended == Append(memories, entry)
        vi == update_index(indexes, texts, "episodic", <<text>>)
        after == _prune_memories(appended, vi.indexes, vi.texts, clock)
        id == Len(after.memories) - 1
    IN  /\ memories' = after.memories
        /\ indexes' = after.indexes
        /\ texts' = after.texts
        /\ next_uid' = next_uid + 1
        /\ issued' = issued \cup { <<id, next_uid + 1>> }
        /\ ret' = [op |-> "add", value |-> id, pruned |-> Len(appended) > MaxMemories]

add_memory(text, importance, category, emotion) ==
    /\ Called
    /\ AddMemoryEffect(text, importance, category, emotion)
    /\ UNCHANGED <<clock, config, lt_memory, aliased, messages, memory_texts, disk, saved>>

\* memory_index values handed to update_importance
IndexArgs == -1..MaxMemories

\* InRange without the lower bound, as Python list indexing would have it
InRangeSigned(memory_index, n) == memory_index < n

\* 0 <= memory_index < len(self.memories)
InRange(memory_index, n) == 0 <= memory_index /\ memory_index < n

\* UpdatedAt also starting the entry's access counter afresh
UpdatedAtRecounted(mems, memory_index, new_importance) ==
    [mems EXCEPT ![memory_index + 1] =
        [@ EXCEPT !.importance = new_importance, !.access_count = 0]]

\* self.memories[memory_index]["importance"] = float(new_importance)
UpdatedAt(mems, memory_index, new_importance) ==
    [mems EXCEPT ![memory_index + 1].importance = StoredImportance(new_importance)]

update_importance(memory_index, new_importance) ==
    /\ Called
    /\ IF InRange(memory_index, Len(memories))
       THEN /\ memories' = UpdatedAt(memories, memory_index, new_importance)
            /\ ret' = [op |-> "update_importance", value |-> TRUE]
       ELSE /\ memories' = memories
            /\ ret' = [op |-> "update_importance", value |-> FALSE]
    /\ UNCHANGED <<clock, config, indexes, texts, lt_memory, aliased, messages,
                   memory_texts, disk, next_uid, issued, saved>>

\* decay_factor = decay_rate ** (age_in_days / 30), to six decimals
RECURSIVE DecayFactor(_)
DecayFactor(age) ==
    IF age = 0 THEN FactorScale ELSE (DecayFactor(age - 1) * DecayNum) \div DecayDen

\* memory["importance"] = max(0.1, memory["importance"] * decay_factor),
\* the product cut to the resolution of the fixed point
Decayed(importance, age) ==
    Max(DecayFloor, (importance * DecayFactor(age)) \div FactorScale)

decay_memories ==
    /\ Called
    /\ memories' = [i \in 1..Len(memories) |->
                      [memories[i] EXCEPT !.importance =
                          Decayed(memories[i].importance, Age(memories[i], clock))]]
    /\ ret' = [op |-> "decay"]
    /\ UNCHANGED <<clock, config, indexes, texts, lt_memory, aliased, messages,
                   memory_texts, disk, next_uid, issued, saved>>

\* combined_relevance as the fraction BlendNum / BlendDen (in fixed point):
\* (0.6 * relevance + 0.7 * importance + 0.3 * recency) / 1.6, recency = 1 / (1 + age)
BlendDen(age) == (SemanticW + ImportanceW + RecencyW) * (1 + age)

BlendNum(relevance, importance, age) ==
    (SemanticW * relevance + ImportanceW * importance) * (1 + age) + RecencyW * Scale

\* Sufficient with the comparison left out
SufficientAlways(num, den, min_relevance) == TRUE

\* combined_relevance >= min_relevance
Sufficient(num, den, min_relevance) == num >= min_relevance * den

\* Python list indexing with a 0-based, possibly negative, index
PyPos(idx, len) == IF idx >= 0 THEN idx + 1 ELSE len + idx + 1

\* Counted also stamping the entry anew
CountedStamped(mems, pos) ==
    [mems EXCEPT ![pos].access_count = @ + 1, ![pos].timestamp = @ + 1]

\* self.memories[idx]["access_count"] += 1
Counted(mems, pos) == [mems EXCEPT ![pos].access_count = @ + 1]

\* the body of the loop over the search results: the store and the list of
\* results after the hits have been processed in order
RECURSIVE ProcessHits(_, _, _, _, _)
ProcessHits(mems, relevant, hits, current_time, min_relevance) ==
    IF hits = <<>> THEN [memories |-> mems, relevant |-> relevant]
    ELSE LET idx == Head(hits).index
         IN  IF ~(idx < Len(mems))
             THEN ProcessHits(mems, relevant, Tail(hits), current_time, min_relevance)
             ELSE LET pos == PyPos(idx, Len(mems))
                      memory == mems[pos]
                      age == Age(memory, current_time)
                      num == BlendNum(Head(hits).relevance, memory.importance, age)
                      den == BlendDen(age)
                      counted == Counted(mems, pos)
                      memory_result ==
                          [text |-> memory.text, relevance_num |-> num, relevance_den |-> den,
                           timestamp |-> memory.timestamp, importance |-> memory.importance,
                           category |-> memory.category, emotion |-> memory.emotion,
                           age_days |-> age, uid |-> memory.uid]
                  IN  ProcessHits(counted,
                                  IF Sufficient(num, den, min_relevance)
                                  THEN Append(relevant, memory_result) ELSE relevant,
                                  Tail(hits), current_time, min_relevance)

RelevanceGE(a, b) == a.relevance_num * b.relevance_den >= b.relevance_num * a.relevance_den

\* relevant_memories.sort(key=relevance, reverse=True): descending, equal
\* relevances in their original order
RECURSIVE SortByRelevance(_, _)
SortByRelevance(rs, n) ==
    IF n = 0 THEN <<>>
    ELSE LET s == SortByRelevance(rs, n - 1)
             p == Cardinality({i \in 1..Len(s) : RelevanceGE(s[i], rs[n])})
         IN  SubSeq(s, 1, p) \o <<rs[n]>> \o SubSeq(s, p + 1, Len(s))

\* the min_relevance retrieve_relevant hands to VectorIndex.search (it passes
\* none, so the default of search applies)
SearchMinRelevance(min_relevance) == DefaultMinRelevance

\* retrieve_relevant for one list of search results
RetrieveFrom(mems, hits, top_k, current_time, min_relevance) ==
    LET done == ProcessHits(mems, <<>>, hits, current_time, min_relevance)
        sorted == SortByRelevance(done.relevant, Len(done.relevant))
    IN  [memories |-> done.memories, result |-> SubSeq(sorted, 1, Min(top_k, Len(sorted)))]

\* the outcomes retrieve_relevant may have: the store after the call and the
\* list returned
RetrieveOutcomes(query, top_k, method, min_relevance) ==
    IF memories = <<>> THEN { [memories |-> memories, result |-> <<>>] }
    ELSE { RetrieveFrom(memories, hits, top_k, clock, min_relevance) :
             hits \in search(config.use_cosine, indexes, texts, "episodic", query,
                             top_k * 2, method, SearchMinRelevance(min_relevance)) }

retrieve_relevant(query, top_k, method, min_relevance) ==
    /\ Called
    /\ \E out \in RetrieveOutcomes(query, top_k, method, min_relevance) :
          /\ memories' = out.memories
          /\ ret' = [op |-> "retrieve", value |-> out.result,
                     top_k |-> top_k, min_relevance |-> min_relevance]
    /\ UNCHANGED <<clock, config, indexes, texts, lt_memory, aliased, messages,
                   memory_texts, disk, next_uid, issued, saved>>

\* ClearedCount taken after the list has been emptied
ClearedCountAfter(mems) == 0

\* count = len(self.memories), taken before the list is emptied
ClearedCount(mems) == Len(mems)

clear ==
    /\ Called
    /\ LET vi == rebuild_index(indexes, texts, "episodic", <<>>)
       IN  /\ indexes' = vi.indexes
           /\ texts' = vi.texts
    /\ memories' = <<>>
    /\ ret' = [op |-> "clear", value |-> ClearedCount(memories)]
    /\ UNCHANGED <<clock, config, lt_memory, aliased, messages, memory_texts, disk,
                   next_uid, issued, saved>>

\* time passes between two calls
Tick ==
    /\ Called
    /\ clock' = clock + 1
    /\ ret' = [op |-> "tick"]
    /\ UNCHANGED <<config, indexes, texts, lt_memory, aliased, memories, messages,
                   memory_texts, disk, next_uid, issued, saved>>

---------------------------------------------------------------------------
\* LongTermMemory

\* persona data handed to initialize
PersonaArgs ==
    { [facts |-> f, traits |-> t, speech_patterns |-> <<>>] :
        f \in { <<>>, <<"a">>, <<"a", "b">> }, t \in { <<>>, <<"b">> } }

\* NonEmpty keeping the keys of empty lists too
EveryKey(d) == DOMAIN d

\* the keys of d that hold a non-empty list
NonEmpty(d) == { c \in DOMAIN d : d[c] # <<>> }

\* memory_texts holds the list objects of lt_memory under the long-term keys
SyncTexts(mt, ltm) ==
    [k \in DOMAIN mt |-> IF k \in LTCategories THEN ltm[k] ELSE mt[k]]

\* create_index for every non-empty category of d, each with the list object d[c]
RECURSIVE CreateAll(_, _, _, _)
CreateAll(ix, tx, d, cs) ==
    IF cs = {} THEN [indexes |-> ix, texts |-> tx]
    ELSE LET c == CHOOSE x \in cs : TRUE
             vi == create_index(ix, tx, c, d[c])
         IN  CreateAll(vi.indexes, vi.texts, d, cs \ {c})

\* LongTermMemory.initialize on the store and the index
InitializeEffect(character_data) ==
    LET vi == CreateAll(indexes, texts, character_data, LTCategories)
    IN  /\ lt_memory' = [c \in LTCategories |-> character_data[c]]
        /\ indexes' = vi.indexes
        /\ texts' = vi.texts
        /\ aliased' = NonEmpty(character_data)

initialize(character_data) ==
    /\ Called
    /\ InitializeEffect(character_data)
    /\ ret' = [op |-> "initialize", value |-> None]
    /\ UNCHANGED <<clock, config, memories, messages, memory_texts, disk, next_uid,
                   issued, saved>>

\* the categories add_fact and add_trait append to
ItemCategories == {"facts", "traits"}

\* the list the long-term store holds after appending one text
Appended(list, text) == Append(list, text)

\* add_fact / add_trait / add_speech_pattern: the text is appended to
\* memory[c], a list that texts[c] may be too, and update_index extends texts[c]
AddItemEffect(c, text) ==
    LET mem1 == Appended(lt_memory[c], text)
        tx1 == IF c \in aliased THEN Put(texts, c, mem1) ELSE texts
        vi == update_index(indexes, tx1, c, <<text>>)
        al == IF c \in DOMAIN indexes THEN aliased ELSE aliased \ {c}
    IN  /\ indexes' = vi.indexes
        /\ texts' = vi.texts
        /\ aliased' = al
        /\ lt_memory' = [lt_memory EXCEPT ![c] = IF c \in al THEN vi.texts[c] ELSE mem1]

add_item(c, text) ==
    /\ Called
    /\ AddItemEffect(c, text)
    /\ memory_texts' = SyncTexts(memory_texts, lt_memory')
    /\ ret' = [op |-> "add_item", value |-> None]
    /\ UNCHANGED <<clock, config, memories, messages, disk, next_uid, issued, saved>>

\* the {text, relevance} pairs made of the results of one search
Pairs(hits) == [i \in 1..Len(hits) |-> [text |-> hits[i].text, relevance |-> hits[i].relevance]]

\* what search may return for one category of the loop of retrieve_relevant
CategoryHits(c, memory_types, query, top_k, method, min_relevance) ==
    IF c \in memory_types /\ lt_memory[c] # <<>>
    THEN search(config.use_cosine, indexes, texts, c, query, top_k, method, min_relevance)
    ELSE { <<>> }

\* LongTermMemory.retrieve_relevant: the dicts the call may return
LongTermResults(query, memory_types, top_k, method, min_relevance) ==
    { LET h == [facts |-> hf, traits |-> ht, speech_patterns |-> hs]
      IN  [c \in NonEmpty(h) |-> Pairs(h[c])] :
        hf \in CategoryHits("facts", memory_types, query, top_k, method, min_relevance),
        ht \in CategoryHits("traits", memory_types, query, top_k, method, min_relevance),
        hs \in CategoryHits("speech_patterns", memory_types, query, top_k, method,
                            min_relevance) }

lt_retrieve_relevant(query, memory_types, top_k, method, min_relevance) ==
    /\ Called
    /\ \E r \in LongTermResults(query, memory_types, top_k, method, min_relevance) :
          ret' = [op |-> "lt_retrieve", value |-> r,
                  top_k |-> top_k, min_relevance |-> min_relevance]
    /\ UNCHANGED <<clock, config, indexes, texts, lt_memory, aliased, memories, messages,
                   memory_texts, disk, next_uid, issued, saved>>

\* text lists handed to create_index, update_index and rebuild_index
IndexTextArgs == { <<>>, <<"b">> }

\* a VectorIndex call made on a category: the index after it, and the long-term
\* list when it is the list object the call extends
IndexCallEffect(c, vi, replaced) ==
    LET al == IF replaced THEN aliased \ {c} ELSE aliased
    IN  /\ indexes' = vi.indexes
        /\ texts' = vi.texts
        /\ aliased' = al
        /\ lt_memory' = IF c \in al /\ c \in DOMAIN vi.texts
                        THEN [lt_memory EXCEPT ![c] = vi.texts[c]] ELSE lt_memory
        /\ memory_texts' = SyncTexts(memory_texts, lt_memory')
        /\ UNCHANGED <<clock, config, memories, messages, disk, next_uid, issued, saved>>

create_index_call(c, ts) ==
    /\ Called
    /\ IndexCallEffect(c, create_index(indexes, texts, c, ts), ts # <<>>)
    /\ ret' = [op |-> "create_index", value |-> None]

update_index_call(c, ts) ==
    /\ Called
    /\ IndexCallEffect(c, update_index(indexes, texts, c, ts),
                       ts # <<>> /\ c \notin DOMAIN indexes)
    /\ ret' = [op |-> "update_index", value |-> None]

rebuild_index_call(c, ts) ==
    /\ Called
    /\ IndexCallEffect(c, rebuild_index(indexes, texts, c, ts), ts # <<>>)
    /\ ret' = [op |-> "rebuild_index", value |-> None]

\* text lists a VectorIndex user indexes, and the categories it searches
CorpusArgs == { <<>>, <<"a">>, <<"b">>, <<"a", "b">> }
SearchCategoryArgs == {"facts", "moods"}

\* VectorIndex.search called on its own
search_call(c, q, top_k, method, min_relevance) ==
    /\ Called
    /\ \E hits \in search(config.use_cosine, indexes, texts, c, q, top_k, method,
                          min_relevance) :
          ret' = [op |-> "search", value |-> hits, memory_type |-> c, query |-> q]
    /\ UNCHANGED <<clock, config, indexes, texts, lt_memory, aliased, memories, messages,
                   memory_texts, disk, next_uid, issued, saved>>

---------------------------------------------------------------------------
\* MemoryManager.__init__: the state after construction

EmptyDict == [x \in {} |-> <<>>]

InitialLongTerm == [c \in LTCategories |-> <<>>]

Configs == [model_name : {"paraphrase-multilingual-MiniLM-L12-v2"},
            index_type : {"flat"},
            use_cosine : BOOLEAN]

NoFile == [kind |-> "missing"]

Init ==
    /\ clock = 0
    /\ config \in Configs
    /\ indexes = EmptyDict
    /\ texts = EmptyDict
    /\ lt_memory = InitialLongTerm
    /\ aliased = {}
    /\ memories = <<>>
    /\ messages = <<>>
    /\ memory_texts = EmptyDict
    /\ disk = NoFile
    /\ next_uid = 0
    /\ issued = {}
    /\ steps = 0
    /\ saved = NoFile
    /\ ret = [op |-> "init"]

\* index types a VectorIndex is configured with, and corpus sizes it indexes
IndexTypes == {"flat", "ivf", "ivfpq", "hnsw"}
SizeArgs == {1, 999, 1000, 1001, 4999, 5000, 5001}

\* a manager constructed with any index type
InitTyped ==
    /\ clock = 0
    /\ config \in [model_name : {"paraphrase-multilingual-MiniLM-L12-v2"},
                   index_type : IndexTypes,
                   use_cosine : BOOLEAN]
    /\ indexes = EmptyDict
    /\ texts = EmptyDict
    /\ lt_memory = InitialLongTerm
    /\ aliased = {}
    /\ memories = <<>>
    /\ messages = <<>>
    /\ memory_texts = EmptyDict
    /\ disk = NoFile
    /\ next_uid = 0
    /\ issued = {}
    /\ steps = 0
    /\ saved = NoFile
    /\ ret = [op |-> "init"]

\* the choice of structure create_index makes for a corpus of num_vectors
\* texts, the corpus itself left out
choose_index(num_vectors) ==
    /\ Called
    /\ ret' = [op |-> "choose_index", num_vectors |-> num_vectors,
               value |-> IndexKind(config.index_type, num_vectors)]
    /\ UNCHANGED <<clock, config, indexes, texts, lt_memory, aliased, memories, messages,
                   memory_texts, disk, next_uid, issued, saved>>

---------------------------------------------------------------------------
\* ShortTermMemory

Utterances == {"hi", "yo"}

\* add_message dropping the newest messages beyond the limit
add_message_oldest(msgs, message) ==
    SubSeq(Append(msgs, message), 1, Min(Len(msgs) + 1, MaxMessages))

\* add_message: append, then keep the last max_messages
add_message(msgs, message) ==
    LET appended == Append(msgs, message)
    IN  IF Len(appended) > MaxMessages
        THEN SubSeq(appended, Len(appended) - MaxMessages + 1, Len(appended))
        ELSE appended

---------------------------------------------------------------------------
\* MemoryManager

initialize_long_term_memory(character_data) ==
    /\ Called
    /\ InitializeEffect(character_data)
    /\ memory_texts' = [k \in Categories |->
                          IF k = "episodic" THEN <<>> ELSE character_data[k]]
    /\ ret' = [op |-> "initialize", value |-> None]
    /\ UNCHANGED <<clock, config, memories, messages, disk, next_uid, issued, saved>>

add_to_short_term_memory(message) ==
    /\ Called
    /\ messages' = add_message(messages, message)
    /\ ret' = [op |-> "add_utterance", value |-> messages']
    /\ UNCHANGED <<clock, config, indexes, texts, lt_memory, aliased, memories,
                   memory_texts, disk, next_uid, issued, saved>>

add_episodic_memory(text, importance, category, emotion) ==
    /\ Called
    /\ AddMemoryEffect(text, importance, category, emotion)
    /\ memory_texts' = Put(memory_texts, "episodic", TextsOf(memories'))
    /\ UNCHANGED <<clock, config, lt_memory, aliased, messages, disk, saved>>

TypeArgs == { Categories, {"facts"}, {"episodic"}, {"traits", "moods"} }

retrieve_relevant_memories(query, memory_types, top_k, method, min_relevance) ==
    /\ Called
    /\ \E lt \in (IF memory_types \cap LTCategories # {}
                  THEN LongTermResults(query, memory_types \cap LTCategories, top_k,
                                       method, min_relevance)
                  ELSE { EmptyDict }) :
       \E ep \in (IF "episodic" \in memory_types
                  THEN RetrieveOutcomes(query, top_k, method, min_relevance)
                  ELSE { [memories |-> memories, result |-> <<>>] }) :
          /\ memories' = ep.memories
          /\ ret' = [op |-> "retrieve_memories",
                     value |-> IF ep.result # <<>> THEN Put(lt, "episodic", ep.result)
                               ELSE lt,
                     memory_types |-> memory_types,
                     top_k |-> top_k, min_relevance |-> min_relevance]
    /\ UNCHANGED <<clock, config, indexes, texts, lt_memory, aliased, messages,
                   memory_texts, disk, next_uid, issued, saved>>

\* EpisodicMemory.settings
Settings ==
    [importance_decay_rate |-> DecayNum, max_memories |-> MaxMemories,
     recency_weight |-> RecencyW, importance_weight |-> ImportanceW]

\* the dict save_to_file pickles
MemoryData ==
    [long_term_memory |-> lt_memory,
     short_term_memory |-> [max_messages |-> MaxMessages, messages |-> messages],
     episodic_memory |-> [memories |-> memories, settings |-> Settings],
     memory_texts |-> memory_texts,
     model_name |-> config.model_name,
     index_type |-> config.index_type,
     use_cosine |-> config.use_cosine]

\* what the manager holds, as far as a snapshot has to keep it
Content ==
    [lt_memory |-> lt_memory, memories |-> memories, messages |-> messages,
     config |-> config]

save_to_file ==
    /\ Called
    /\ disk' = [kind |-> "file", data |-> MemoryData]
    /\ saved' = [kind |-> "file", content |-> Content]
    /\ ret' = [op |-> "save", value |-> None]
    /\ UNCHANGED <<clock, config, indexes, texts, lt_memory, aliased, memories, messages,
                   memory_texts, next_uid, issued>>

\* LongTermMemory.from_dict
LongTermFromDict(data) == [c \in LTCategories |-> data[c]]

\* ShortTermMemory.from_dict
ShortTermFromDict(data) == data.messages

\* EpisodicFromDict with the access counters started afresh
EpisodicFromDictNoCounts(data) ==
    [i \in 1..Len(data.memories) |-> [data.memories[i] EXCEPT !.access_count = 0]]

\* EpisodicMemory.from_dict
EpisodicFromDict(data) == data.memories

DefaultConfig ==
    [model_name |-> "paraphrase-multilingual-MiniLM-L12-v2", index_type |-> "flat",
     use_cosine |-> TRUE]

\* cls(): a manager as __init__ leaves it, with the default arguments
Fresh ==
    [config |-> DefaultConfig, indexes |-> EmptyDict, texts |-> EmptyDict,
     lt_memory |-> InitialLongTerm, aliased |-> {}, memories |-> <<>>,
     messages |-> <<>>, memory_texts |-> EmptyDict]

\* the manager load_from_file builds from the pickled dict d
Restored(d) ==
    LET ltm == LongTermFromDict(d.long_term_memory)
        mems == EpisodicFromDict(d.episodic_memory)
        v1 == CreateAll(EmptyDict, EmptyDict, ltm, LTCategories)
        v2 == IF mems # <<>>
              THEN rebuild_index(v1.indexes, v1.texts, "episodic", TextsOf(mems))
              ELSE v1
    IN  [config |-> [model_name |-> d.model_name, index_type |-> d.index_type,
                     use_cosine |-> d.use_cosine],
         indexes |-> v2.indexes, texts |-> v2.texts,
         lt_memory |-> ltm, aliased |-> NonEmpty(ltm), memories |-> mems,
         messages |-> ShortTermFromDict(d.short_term_memory),
         memory_texts |-> d.memory_texts]

\* the manager as it stands when episodic_memory.from_dict raises: built with
\* the pickled configuration, long-term and short-term parts restored
PartlyRestored(d) ==
    LET ltm == LongTermFromDict(d.long_term_memory)
        v1 == CreateAll(EmptyDict, EmptyDict, ltm, LTCategories)
    IN  [config |-> [model_name |-> d.model_name, index_type |-> d.index_type,
                     use_cosine |-> d.use_cosine],
         indexes |-> v1.indexes, texts |-> v1.texts,
         lt_memory |-> ltm, aliased |-> NonEmpty(ltm), memories |-> <<>>,
         messages |-> ShortTermFromDict(d.short_term_memory),
         memory_texts |-> EmptyDict]

\* OnLoadError handing back the manager under construction
OnLoadErrorPartial(partial) == partial

\* except Exception: return cls()
OnLoadError(partial) == Fresh

\* what load_from_file returns for the file it finds: nothing there, a file
\* pickle.load cannot read, a pickled dict whose episodic part is not a dict,
\* or a file as save_to_file wrote it
LoadOutcome ==
    CASE disk.kind = "missing" -> [manager |-> Fresh, value |-> "new"]
      [] disk.kind = "unreadable" -> [manager |-> OnLoadError(Fresh), value |-> "new"]
      [] disk.kind = "malformed" ->
            [manager |-> OnLoadError(PartlyRestored(disk.data)), value |-> "new"]
      [] OTHER -> [manager |-> Restored(disk.data), value |-> "loaded"]

\* load_from_file: the caller's manager becomes the one the call returns
load_from_file ==
    /\ Called
    /\ LET out == LoadOutcome
       IN  /\ config' = out.manager.config
           /\ indexes' = out.manager.indexes
           /\ texts' = out.manager.texts
           /\ lt_memory' = out.manager.lt_memory
           /\ aliased' = out.manager.aliased
           /\ memories' = out.manager.memories
           /\ messages' = out.manager.messages
           /\ memory_texts' = out.manager.memory_texts
           /\ ret' = [op |-> "load", value |-> out.value]
    /\ UNCHANGED <<clock, disk, next_uid, issued, saved>>

\* ways the saved file gets damaged between two calls
DamageArgs == {"unreadable", "malformed"}

\* the file at file_path is damaged: its bytes are no pickle any more, or it
\* unpickles to a dict whose episodic part is not a dict
damage_file(how) ==
    /\ Called
    /\ disk.kind = "file"
    /\ disk' = IF how = "unreadable" THEN [kind |-> "unreadable"]
               ELSE [kind |-> "malformed", data |-> disk.data]
    /\ ret' = [op |-> "damage"]
    /\ UNCHANGED <<clock, config, indexes, texts, lt_memory, aliased, memories, messages,
                   memory_texts, next_uid, issued, saved>>

\* one EpisodicMemory over its VectorIndex: entries are added with any
\* importance and the default category and emotion, and searched with the
\* default arguments of retrieve_relevant
NextEpisodic ==
    \/ Tick
    \/ \E t \in Texts, i \in ImportanceArgs : add_memory(t, i, None, None)
    \/ \E x \in IndexArgs, i \in ImportanceArgs : update_importance(x, i)
    \/ decay_memories
    \/ \E q \in Queries : retrieve_relevant(q, DefaultTopK, "sigmoid", DefaultMinRelevance)
    \/ clear

SpecEpisodic == Init /\ [][NextEpisodic]_vars

\* one EpisodicMemory over its VectorIndex: entries are added with the
\* default importance, category and emotion, and searched with any arguments
NextRetrieval ==
    \/ Tick
    \/ \E t \in Texts : add_memory(t, DefaultImportance, None, None)
    \/ \E q \in Queries, k \in TopKArgs, me \in Methods, mr \in MinRelevanceArgs :
          retrieve_relevant(q, k, me, mr)
    \/ clear

SpecRetrieval == Init /\ [][NextRetrieval]_vars

\* one VectorIndex with a LongTermMemory over it, and callers of both
NextLongTerm ==
    \/ \E d \in PersonaArgs : initialize(d)
    \/ \E c \in ItemCategories, t \in Texts : add_item(c, t)
    \/ \E q \in Queries, ty \in TypeArgs, k \in TopKArgs, me \in Methods,
          mr \in MinRelevanceArgs : lt_retrieve_relevant(q, ty, k, me, mr)
    \/ \E ts \in IndexTextArgs : create_index_call("facts", ts)
    \/ \E ts \in IndexTextArgs : update_index_call("facts", ts)
    \/ \E ts \in IndexTextArgs : rebuild_index_call("facts", ts)

SpecLongTerm == Init /\ [][NextLongTerm]_vars

\* one LongTermMemory used through its own methods only
NextPersona ==
    \/ \E d \in PersonaArgs : initialize(d)
    \/ \E c \in ItemCategories, t \in Texts : add_item(c, t)
    \/ \E q \in Queries, ty \in TypeArgs, k \in TopKArgs, me \in Methods,
          mr \in MinRelevanceArgs : lt_retrieve_relevant(q, ty, k, me, mr)

SpecPersona == Init /\ [][NextPersona]_vars

\* one VectorIndex used on its own: a category is created, extended, rebuilt
\* and searched
NextIndex ==
    \/ \E ts \in CorpusArgs : create_index_call("facts", ts)
    \/ \E ts \in CorpusArgs : update_index_call("facts", ts)
    \/ \E ts \in CorpusArgs : rebuild_index_call("facts", ts)
    \/ \E c \in SearchCategoryArgs, q \in Queries, k \in TopKArgs, me \in Methods,
          mr \in MinRelevanceArgs : search_call(c, q, k, me, mr)

SpecIndex == Init /\ [][NextIndex]_vars

\* the structure chosen for corpora of several sizes under each index type
NextPolicy == \E n \in SizeArgs : choose_index(n)

SpecPolicy == InitTyped /\ [][NextPolicy]_vars

\* one MemoryManager and its callers: the long-term store is seeded, entries
\* are added with the default importance, and every retrieval entry point is
\* used (the manager's with any method, the stores' own with the default one)
NextManager ==
    \/ Tick
    \/ \E d \in PersonaArgs : initialize_long_term_memory(d)
    \/ \E t \in Texts : add_episodic_memory(t, DefaultImportance, None, None)
    \/ \E q \in Queries, ty \in TypeArgs, me \in Methods, mr \in MinRelevanceArgs :
          retrieve_relevant_memories(q, ty, DefaultTopK, me, mr)
    \/ \E q \in Queries, mr \in MinRelevanceArgs :
          lt_retrieve_relevant(q, LTCategories, DefaultTopK, "sigmoid", mr)
    \/ \E q \in Queries, mr \in MinRelevanceArgs :
          retrieve_relevant(q, DefaultTopK, "sigmoid", mr)

SpecManager == Init /\ [][NextManager]_vars

\* one MemoryManager and the file it is saved to and loaded from
NextPersist ==
    \/ Tick
    \/ \E d \in PersonaArgs : initialize_long_term_memory(d)
    \/ \E u \in Utterances : add_to_short_term_memory(u)
    \/ \E t \in Texts, m \in MetaArgs : add_episodic_memory(t, DefaultImportance, m[1], m[2])
    \/ \E t \in Texts : add_item("facts", t)
    \/ retrieve_relevant("a", DefaultTopK, "sigmoid", DefaultMinRelevance)
    \/ save_to_file
    \/ \E how \in DamageArgs : damage_file(how)
    \/ load_from_file

SpecPersist == Init /\ [][NextPersist]_vars

---------------------------------------------------------------------------
\* Properties of the episodic store

UidsOf(rs) == { rs[i].uid : i \in 1..Len(rs) }

\* C1: when add_memory returns, the store holds at most max_memories entries,
\* whatever calls came before it.
C1_AddWithinCapacity == ret.op = "add" => Len(memories) <= MaxMemories

\* an add_memory call that pruned has just returned, after the clock moved
C1_Witness == ret.op = "add" /\ ret.pruned /\ clock > 0 /\ Len(memories) = MaxMemories

\* C2: when add_memory had to prune (the count after appending exceeded
\* max_memories), the store holds exactly max_memories entries on return.
C2_PruneExact == (ret.op = "add" /\ ret.pruned) => Len(memories) = MaxMemories

\* the entry that overflows an untouched store has just been added
C2_Witness == ret.op = "add" /\ ret.pruned /\ next_uid = MaxMemories + 1

\* C3: every stored entry has an importance within [0, 1].
C3_ImportanceInUnitInterval ==
    \A i \in 1..Len(memories) : 0 <= memories[i].importance /\ memories[i].importance <= Scale

\* C4: a retrieve_relevant call adds 1 to the access_count of each entry it
\* returns and 0 to the access_count of every other entry.
C4_AccessAccounting ==
    [][ret'.op = "retrieve" =>
          /\ Len(memories') = Len(memories)
          /\ \A i \in 1..Len(memories) :
                memories'[i].access_count =
                    memories[i].access_count
                    + (IF memories[i].uid \in UidsOf(ret'.value) THEN 1 ELSE 0)]_vars

\* C5: decay_memories never raises the importance of an entry.
C5_DecayNeverRaises ==
    [][ret'.op = "decay" =>
          \A i \in 1..Len(memories) : memories'[i].importance <= memories[i].importance]_vars

\* C6: the id add_memory returned designates the entry it added for as long as
\* that entry is stored, and no two add_memory calls returned the same id.
C6_IdsStableAndUnique ==
    /\ \A p \in issued : \A i \in 1..Len(memories) :
          memories[i].uid = p[2] => i = p[1] + 1
    /\ \A p, r \in issued : p[1] = r[1] => p[2] = r[2]

\* C7: no result of a retrieval call (the long-term store's, the episodic
\* store's or the manager's) has a relevance below the min_relevance of the call.
C7_FilterCorrectness ==
    /\ ret.op = "retrieve" =>
          \A i \in 1..Len(ret.value) :
             ret.value[i].relevance_num >= ret.min_relevance * ret.value[i].relevance_den
    /\ ret.op \in {"lt_retrieve", "retrieve_memories"} =>
          \A c \in DOMAIN ret.value : \A i \in 1..Len(ret.value[c]) :
             IF c = "episodic"
             THEN ret.value[c][i].relevance_num
                      >= ret.min_relevance * ret.value[c][i].relevance_den
             ELSE ret.value[c][i].relevance >= ret.min_relevance

\* the manager returned episodic and long-term results for the higher
\* threshold, and a long-term text the search reached was held back
C7_Witness ==
    /\ ret.op = "retrieve_memories"
    /\ ret.min_relevance > DefaultMinRelevance
    /\ "episodic" \in DOMAIN ret.value
    /\ "facts" \in DOMAIN ret.value
    /\ Len(ret.value["episodic"]) > 0
    /\ Len(ret.value["facts"]) < Min(ret.top_k, Len(lt_memory["facts"]))

\* the candidates the claim of C8 speaks of: the up-to-2k nearest entries of
\* the store, each with its blended relevance
Candidate(mems, label, q, method, current_time) ==
    LET memory == mems[label + 1]
        relevance == _calculate_relevance(RawDistance(config.use_cosine, q, memory.text),
                                          method)
    IN  [uid |-> memory.uid,
         relevance_num |-> BlendNum(relevance, memory.importance, Age(memory, current_time)),
         relevance_den |-> BlendDen(Age(memory, current_time))]

\* the list is what the claim of C8 describes for the candidates cs
AsClaimed(result, cs, top_k, min_relevance) ==
    LET passing == { c \in cs : c.relevance_num >= min_relevance * c.relevance_den }
    IN  /\ Len(result) = Min(top_k, Cardinality(passing))
        /\ \A i \in 1..Len(result) : \E c \in passing :
              /\ c.uid = result[i].uid
              /\ c.relevance_num = result[i].relevance_num
              /\ c.relevance_den = result[i].relevance_den
        /\ \A i, j \in 1..Len(result) :
              i < j => result[i].uid # result[j].uid /\ RelevanceGE(result[i], result[j])
        /\ \A c \in passing : \A i \in 1..Len(result) :
              c.uid \in UidsOf(result) \/ RelevanceGE(result[i], c)

---------------------------------------------------------------------------
\* Properties of the index and of persistence

\* C9: loading a saved manager gives back the long-term texts, the episodic
\* entries with all their fields, the short-term buffer and the configuration
\* the manager had when it was saved.
C9_RoundTrip ==
    (ret.op = "load" /\ ret.value = "loaded") => Content = saved.content

\* a manager holding a categorised episodic entry and an utterance was saved
\* and loaded back
C9_Witness ==
    /\ ret.op = "load" /\ ret.value = "loaded"
    /\ messages # <<>>
    /\ \E i \in 1..Len(memories) : memories[i].category # None /\ memories[i].emotion # None

\* C10: every category's text list and vector structure have the same length,
\* and the i-th text is the text whose vector is stored at position i.
C10_ParallelLists ==
    /\ DOMAIN indexes \subseteq DOMAIN texts
    /\ \A c \in DOMAIN texts :
          IF c \in DOMAIN indexes THEN texts[c] = indexes[c] ELSE texts[c] = <<>>

\* C11: rebuild_index either replaces both the text list and the vector
\* structure of the category by ones built from the given texts, or leaves
\* both as they were; it never changes or removes one without the other.
C11_RebuildAllOrNothing ==
    [][\A ts \in IndexTextArgs :
          rebuild_index_call("facts", ts) =>
             \/ /\ ts # <<>>
                /\ "facts" \in DOMAIN indexes' /\ indexes'["facts"] = ts
                /\ "facts" \in DOMAIN texts' /\ texts'["facts"] = ts
             \/ /\ ts = <<>>
                /\ "facts" \in DOMAIN indexes' => indexes'["facts"] = <<>>
                /\ "facts" \in DOMAIN texts' => texts'["facts"] = <<>>
             \/ /\ indexes' = indexes
                /\ texts' = texts]_vars

\* C12: clear removes every episodic entry and returns the number of entries
\* stored just before the call; while the store is empty, retrieve_relevant
\* returns no result and the store stays empty.
C12_ClearEmpties ==
    [][/\ ret'.op = "clear" => memories' = <<>> /\ ret'.value = Len(memories)
       /\ (ret'.op = "retrieve" /\ memories = <<>>) =>
             ret'.value = <<>> /\ memories' = <<>>]_vars

\* a store that held entries was cleared and then searched, with the texts of
\* the cleared entries still in the index's text list
C12_Witness ==
    /\ ret.op = "retrieve"
    /\ memories = <<>>
    /\ next_uid > 0
    /\ "episodic" \in DOMAIN texts /\ texts["episodic"] # <<>>

\* C13: an entry that was evicted by _prune_memories or removed by clear is
\* never stored again and never returned by a later retrieve_relevant, and an
\* entry leaves the store only in a clear or in an add_memory that pruned.
C13_PrunedIsTerminal ==
    [][/\ \A u \in 1..next_uid :
             u \notin UidsOf(memories) =>
                /\ u \notin UidsOf(memories')
                /\ ret'.op = "retrieve" => u \notin UidsOf(ret'.value)
       /\ (\E u \in UidsOf(memories) : u \notin UidsOf(memories')) =>
             (ret'.op = "clear" \/ (ret'.op = "add" /\ ret'.pruned))]_vars

\* a full store that has evicted an entry was searched and returned results
C13_Witness ==
    /\ ret.op = "retrieve" /\ ret.value # <<>>
    /\ Len(memories) = MaxMemories
    /\ next_uid > MaxMemories

\* C14: when _prune_memories runs with more than max_memories entries, it
\* removes exactly count - max_memories of them, every removed entry has a
\* retention score no higher than any surviving one, and the survivors stay in
\* the order they had.
C14_PruneLowestInOrder ==
    [][\A t \in Texts, i \in ImportanceArgs :
          (add_memory(t, i, None, None) /\ Len(memories) + 1 > MaxMemories) =>
             LET before == Append(memories, NewEntry(t, i, None, None, next_uid + 1, clock))
                 kept == { k \in 1..Len(before) : before[k].uid \in UidsOf(memories') }
                 removed == (1..Len(before)) \ kept
                 Pos(u) == CHOOSE k \in 1..Len(before) : before[k].uid = u
             IN  /\ Cardinality(removed) = Len(before) - MaxMemories
                 /\ \A r \in removed, k \in kept : ScoreLE(before[r], before[k], clock)
                 /\ Len(memories') = Cardinality(kept)
                 /\ \A x \in 1..Len(memories') :
                       /\ memories'[x].uid \in UidsOf(before)
                       /\ memories'[x] = before[Pos(memories'[x].uid)]
                 /\ \A x, y \in 1..Len(memories') :
                       x < y => Pos(memories'[x].uid) < Pos(memories'[y].uid)]_vars

\* add_memory has just evicted the entry in the middle of the list: the oldest
\* entry and the new one are stored, the one between them is gone
C14_Witness ==
    /\ ret.op = "add" /\ ret.pruned
    /\ Len(memories) = MaxMemories
    /\ memories[Len(memories)].uid = next_uid
    /\ memories[Len(memories) - 1].uid = next_uid - 2

\* C15: update_importance with an id that is negative or not below the number
\* of stored entries returns False and leaves the store and the index as they were.
C15_UpdateOutOfRange ==
    [][\A x \in IndexArgs, i \in ImportanceArgs :
          (update_importance(x, i) /\ (x < 0 \/ x >= Len(memories))) =>
             /\ ret'.value = FALSE
             /\ memories' = memories
             /\ indexes' = indexes
             /\ texts' = texts]_vars

\* update_importance has just refused an id on a store that holds entries
C15_Witness ==
    /\ ret.op = "update_importance" /\ ret.value = FALSE
    /\ memories # <<>>

\* C16: update_importance with a valid id returns True and overwrites only the
\* importance of that entry (with the value given, when it lies in [0, 1]):
\* its other fields, the other entries, their number and order, and the index
\* are as they were.
C16_UpdateFrame ==
    [][\A x \in IndexArgs, i \in ImportanceArgs :
          (update_importance(x, i) /\ 0 <= x /\ x < Len(memories)) =>
             /\ ret'.value = TRUE
             /\ Len(memories') = Len(memories)
             /\ \A k \in 1..Len(memories) : k # x + 1 => memories'[k] = memories[k]
             /\ memories'[x + 1] =
                   [memories[x + 1] EXCEPT !.importance = memories'[x + 1].importance]
             /\ (0 <= i /\ i <= Scale) => memories'[x + 1].importance = i
             /\ indexes' = indexes
             /\ texts' = texts]_vars

\* update_importance has just accepted an id on a store of several entries,
\* one of which has been retrieved before
C16_Witness ==
    /\ ret.op = "update_importance" /\ ret.value = TRUE
    /\ Len(memories) > 1
    /\ \E k \in 1..Len(memories) : memories[k].access_count > 0

\* C17: every stored entry has an importance of at least 0.1, in every
\* reachable state of the store.
C17_ImportanceFloor ==
    \A i \in 1..Len(memories) : memories[i].importance >= DecayFloor

\* C18: decay_memories changes nothing on an entry of age zero, and a second
\* decay_memories at the same clock instant leaves every importance as the
\* first call left it.
C18_DecayIdempotent ==
    [][ret'.op = "decay" =>
          /\ \A i \in 1..Len(memories) :
                Age(memories[i], clock) = 0 =>
                   memories'[i].importance = memories[i].importance
          /\ ret.op = "decay" => memories' = memories]_vars

\* C19: add_fact / add_trait / add_speech_pattern append the text exactly
\* once: afterwards the category's list is the previous list followed by one
\* copy of the new text.
C19_AddItemOnce ==
    [][\A c \in ItemCategories, t \in Texts :
          add_item(c, t) => lt_memory'[c] = Append(lt_memory[c], t)]_vars

\* C20: load_from_file on a missing, unreadable or malformed file returns a
\* freshly initialized manager: default configuration, no long-term, episodic
\* or short-term content, no index.
C20_LoadFallsBack ==
    (ret.op = "load" /\ disk.kind # "file") =>
        /\ ret.value = "new"
        /\ config = DefaultConfig
        /\ lt_memory = InitialLongTerm
        /\ memories = <<>>
        /\ messages = <<>>
        /\ indexes = EmptyDict
        /\ texts = EmptyDict
        /\ memory_texts = EmptyDict

\* a file holding long-term facts was damaged in its episodic part and then loaded
C20_Witness ==
    /\ ret.op = "load"
    /\ disk.kind = "malformed"
    /\ disk.data.long_term_memory["facts"] # <<>>

---------------------------------------------------------------------------
\* Properties of retrieval, of the short-term buffer and of the index

\* C21: retrieve_relevant_memories returns a map whose keys are among the
\* requested categories and whose values are all non-empty lists; a category
\* that is unknown, empty or without a result above min_relevance is left out.
C21_ResultMap ==
    ret.op = "retrieve_memories" =>
        /\ DOMAIN ret.value \subseteq ret.memory_types \cap Categories
        /\ \A c \in DOMAIN ret.value : ret.value[c] # <<>>

\* the manager returned results for some category and left out the facts,
\* although facts were asked for and the long-term store holds facts
C21_Witness ==
    /\ ret.op = "retrieve_memories"
    /\ DOMAIN ret.value # {}
    /\ lt_memory["facts"] # <<>>
    /\ "facts" \in ret.memory_types
    /\ "facts" \notin DOMAIN ret.value

\* C22: the short-term buffer is a bounded queue: add_to_short_term_memory
\* leaves the last min(n, max_messages) utterances in arrival order, where n
\* counts the buffer before the call plus the new utterance, and returns that
\* buffer; the buffer never holds more than max_messages utterances.
C22_BoundedFifo ==
    [][/\ Len(messages') <= MaxMessages
       /\ \A u \in Utterances :
             add_to_short_term_memory(u) =>
                LET all == Append(messages, u)
                    n == Len(all)
                    k == Min(n, MaxMessages)
                IN  /\ Len(messages') = k
                    /\ \A i \in 1..k : messages'[i] = all[n - k + i]
                    /\ ret'.value = messages']_vars

\* an utterance was added to the full buffer that had been saved: the oldest
\* utterance is gone and the others moved up
C22_Witness ==
    /\ ret.op = "add_utterance"
    /\ saved.kind = "file"
    /\ Len(saved.content.messages) = MaxMessages
    /\ Len(messages) = MaxMessages
    /\ messages # saved.content.messages
    /\ \A i \in 1..(MaxMessages - 1) : messages[i] = saved.content.messages[i + 1]

\* C23: search on a category that has no index (never created, or emptied by
\* rebuild_index with no texts) returns the empty list, and every text search
\* returns is the text of the vector stored at the hit's position now.
C23_SearchEmptyCategory ==
    ret.op = "search" =>
        /\ ret.memory_type \notin DOMAIN indexes => ret.value = <<>>
        /\ \A i \in 1..Len(ret.value) :
              /\ ret.memory_type \in DOMAIN indexes
              /\ ret.value[i].index >= 0
              /\ ret.value[i].index < Len(indexes[ret.memory_type])
              /\ ret.value[i].text = indexes[ret.memory_type][ret.value[i].index + 1]

\* a category whose index was removed by rebuild_index, its old texts still
\* in the text list, has just been searched
C23_Witness ==
    /\ ret.op = "search"
    /\ ret.memory_type \notin DOMAIN indexes
    /\ ret.memory_type \in DOMAIN texts
    /\ texts[ret.memory_type] # <<>>

\* C24: every result of a search carries a relevance that is strictly
\* positive and at most 1, for each method and under both metrics.
C24_RelevanceBounds ==
    ret.op = "search" =>
        \A i \in 1..Len(ret.value) :
            0 < ret.value[i].relevance /\ ret.value[i].relevance <= Scale

\* C25: of two hits of one search, the one nearer to the query under the
\* configured metric never has the lower relevance.
C25_RelevanceMonotone ==
    ret.op = "search" =>
        \A i, j \in 1..Len(ret.value) :
            Similarity(ret.query, ret.value[i].text) > Similarity(ret.query, ret.value[j].text)
                => ret.value[i].relevance >= ret.value[j].relevance

\* C26: the structure create_index builds follows the documented policy: flat
\* when the type is flat or the corpus has fewer than 1000 texts, ivf for type
\* ivf and hnsw for type hnsw from 1000 texts on, ivfpq for type ivfpq from
\* 5000 texts on.
C26_IndexPolicy ==
    ret.op = "choose_index" =>
        LET ty == config.index_type
            n == ret.num_vectors
        IN  /\ (ty = "flat" \/ n < 1000) => ret.value = "flat"
            /\ (ty = "ivf" /\ n >= 1000) => ret.value = "ivf"
            /\ (ty = "hnsw" /\ n >= 1000) => ret.value = "hnsw"
            /\ (ty = "ivfpq" /\ n >= 5000) => ret.value = "ivfpq"

\* C27: the id add_memory returns designates the entry it has just added:
\* after the call the entry at that position of the store is the new one,
\* the one update_importance(id, v) changes, also when the call pruned the
\* store.
C27_AddIdDesignates ==
    ret.op = "add" =>
        /\ InRange(ret.value, Len(memories))
        /\ memories[ret.value + 1].uid = next_uid

\* C28: initialize re-seeds the long-term store: whatever was initialized
\* and added before, a retrieval returns for a category only texts the
\* category holds now, the texts of the last persona data and those added
\* since, and none that only an earlier initialize had put there.
C28_Reseed ==
    ret.op = "lt_retrieve" =>
        \A c \in DOMAIN ret.value :
            \A i \in 1..Len(ret.value[c]) :
                \E j \in 1..Len(lt_memory[c]) : lt_memory[c][j] = ret.value[c][i].text

\* C29: whenever the episodic index exists, its text list and its vectors are
\* the texts of the stored entries, position by position, so a search hit
\* with index i designates the stored entry i.
C29_IndexParallel ==
    "episodic" \in DOMAIN indexes =>
        /\ texts["episodic"] = TextsOf(memories)
        /\ indexes["episodic"] = TextsOf(memories)

\* an add has pruned an older entry of the full store: the entries behind it
\* moved up, the new one is stored last, and the index is there
C29_Witness ==
    /\ ret.op = "add"
    /\ ret.pruned
    /\ "episodic" \in DOMAIN indexes
    /\ Len(memories) = MaxMemories
    /\ memories[MaxMemories].uid = next_uid
    /\ \E i \in 1..(MaxMemories - 1) : memories[i].text # memories[MaxMemories].text

\* C30: retrieve_relevant changes nothing of the store but access counts: the
\* entries are as many and in the same order after the call, each with its
\* text, importance, category, emotion and times of creation as before, and
\* the index and its text list are the same.
C30_RetrieveFrame ==
    [][ret'.op = "retrieve" =>
          /\ Len(memories') = Len(memories)
          /\ \A i \in 1..Len(memories) :
                [memories'[i] EXCEPT !.access_count = memories[i].access_count] = memories[i]
          /\ indexes' = indexes
          /\ texts' = texts]_vars

\* a retrieval on a store of several entries has returned results and
\* counted an access
C30_Witness ==
    /\ ret.op = "retrieve"
    /\ ret.value # <<>>
    /\ Len(memories) > 1
    /\ \E i \in 1..Len(memories) : memories[i].access_count > 0

====
